---- MODULE Spec2Model ----
(***************************************************************************)
(* Model of scripts/mox-port-forward.py: an asyncio TCP forwarder that     *)
(* resolves the backend container address per connection (a synchronous    *)
(* `docker ps` / `docker inspect` pair), dials it on the listener's port   *)
(* and relays bytes with two concurrent pipe() coroutines.                 *)
(*                                                                         *)
(* All coroutines run on ONE event-loop thread.  `running` names the task  *)
(* that currently occupies that thread inside a blocking call; every step  *)
(* of every coroutine needs the thread ("idle").  Peers and the container  *)
(* runtime are the environment and move at any time.                       *)
(***************************************************************************)
EXTENDS Integers, Sequences, FiniteSets, TLC

\* ---------------------------------------------------------------- bounds
MaxBytes == 2        \* bytes each peer sends on one stream
\* Spec: both connections at once, little traffic
MaxConcEvents == 1   \* bytes sent, write sides closed and transports failed, together
\* SpecRelay: one connection, more traffic
MaxTotal == 3        \* bytes sent over both streams together
MaxResets == 1       \* transports that fail
\* SpecStartup: the command line
MaxArgs == 2         \* port arguments given

\* BUF_SIZE of the source is 65536; scaled so that a read can be capped.
BUF_SIZE == 2

None == "none"
\* a subprocess that fails or times out (check_output raises)
QueryError == <<"error">>
\* output of docker inspect that json.loads or the descriptor lookups reject
Malformed == <<"malformed">>
\* tasks of the event loop
Idle == <<"idle">>
MainTask == <<"main">>
Task(c) == <<"conn", c>>
\* the model follows two client connections
Conns == {1, 2}
DEFAULT_PORT == 9000
\* port arguments tried: both ends of the Fraktalia range and their neighbours
PortArgs == {8999, DEFAULT_PORT, 9099, 9100}
Sides == {"client", "upstream"}
Other(s) == IF s = "client" THEN "upstream" ELSE "client"

\* The container runtime: the running instances whose name matches
\* CONTAINER_PREFIX, in the order `docker ps` lists them, each with the
\* IPAddress of its networks in the order of the Networks mapping.
Planes ==
  { << >>,
    << [id |-> "x", nets |-> <<"", "a1">>] >>,
    << [id |-> "y", nets |-> <<"a2">>] >>,
    << [id |-> "x", nets |-> <<"">>], [id |-> "y", nets |-> <<"a2">>] >> }

VARIABLES
  plane,        \* current state of the container runtime
  running,      \* task occupying the event-loop thread: Idle, MainTask or Task(c)
  container_id, \* resolve_container_ip's local container_id (None: nothing to inspect)
  mainpc,       \* position of __main__ and main(): "validate","start","resolving","forwarding","exited"
  mainip,       \* main()'s local ip
  listening,    \* ports with a serving listener
  st,           \* handler state per connection
  port,         \* handle_connection's port argument
  ip,           \* handle_connection's local ip
  target,       \* <<host, port>> given to open_connection, or None
  pipe,         \* pipe[c][s]: the pipe() reading side s: "idle","copy","done"
  inq,          \* inq[c][s]: bytes peer s has sent that the forwarder can still read
  outq,         \* outq[c][s]: bytes the forwarder has written to peer s
  sent,         \* sent[c][s]: number of bytes peer s has sent
  weof,         \* weof[c][s]: peer s has closed its write side
  err,          \* err[c][s]: the transport of side s has failed (reset, broken pipe)
  closed,       \* closed[c][s]: the forwarder has closed the writer of side s
  path,         \* history: how the handler finished: "none","absent","dialfail","relay"
  nres,         \* history: resolver calls made by the handler
  argv,         \* sys.argv[1:] as integers
  exitcode,     \* exit status of the process, -1 while it runs
  failed        \* history: ports whose listener failed to bind or to serve

procvars == <<argv, exitcode, failed>>
mainvars == <<mainpc, mainip, procvars>>
handler  == <<st, port, ip, target, path, nres>>
streams  == <<pipe, inq, outq, sent, weof, err, closed>>
vars == <<plane, running, container_id, mainpc, mainip, listening,
          st, port, ip, target, pipe, inq, outq, sent, weof, err, closed,
          path, nres, argv, exitcode, failed>>

\* ports = [int(p) for p in sys.argv[1:]] if len(sys.argv) > 1 else DEFAULT_PORTS
portlist == IF argv = << >> THEN <<DEFAULT_PORT>> ELSE argv
ports == {portlist[i] : i \in DOMAIN portlist}

\* 9000 <= p <= 9099
InRange(p) == 9000 <= p /\ p <= 9099

\* the event loop is gone: the process has exited
Exited == <<"exited">>

\* ------------------------------------------------------------- helpers
Min(a, b) == IF a < b THEN a ELSE b

AddrsOf(pl) ==
  UNION {{pl[i].nets[j] : j \in DOMAIN pl[i].nets} : i \in DOMAIN pl} \ {""}

RECURSIVE SumSent(_, _)
SumSent(f, S) ==
  IF S = {} THEN 0
  ELSE LET c == CHOOSE x \in S : TRUE
       IN f[c]["client"] + f[c]["upstream"] + SumSent(f, S \ {c})

Flagged(f) == {<<c, s>> \in Conns \X Sides : f[c][s]}

\* for net in networks.values(): ip = net.get("IPAddress"); if ip: return ip
RECURSIVE first_ip(_)
first_ip(nets) ==
  IF nets = << >> THEN None
  ELSE IF Head(nets) # "" THEN Head(nets)
  ELSE first_ip(Tail(nets))

\* docker ps -q -f name=PREFIX: the ids of the matching instances
docker_ps(pl) == [i \in DOMAIN pl |-> pl[i].id]

\* docker inspect <id>: the descriptor's Networks; the query fails when the
\* instance no longer exists
docker_inspect(pl, cid) ==
  IF \E i \in DOMAIN pl : pl[i].id = cid
  THEN pl[CHOOSE i \in DOMAIN pl : pl[i].id = cid].nets
  ELSE QueryError

\* resolve_container_ip up to container_id = out.splitlines()[0]: the
\* values container_id can take (None: the function returns None at once).
\* Either subprocess may fail or time out, whatever the runtime holds.
resolve_ps(pl) ==
  {IF out = QueryError \/ out = << >> THEN None ELSE out[1] :
     out \in {QueryError, docker_ps(pl)}}

\* variant: only the subprocess errors are caught, a malformed descriptor raises
resolve_inspect_raises(pl, cid) ==
  IF cid = None THEN {None}
  ELSE {IF info = QueryError THEN None
        ELSE IF info = Malformed THEN "raised" ELSE first_ip(info) :
          info \in {QueryError, Malformed, docker_inspect(pl, cid)}}

\* variant: when the inspected instance has no address the others are tried
resolve_inspect_any(pl, cid) ==
  IF cid = None THEN {None}
  ELSE {IF info \in {QueryError, Malformed} THEN None
        ELSE IF first_ip(info) # None THEN first_ip(info)
        ELSE IF AddrsOf(pl) # {} THEN CHOOSE a \in AddrsOf(pl) : TRUE
        ELSE None :
          info \in {QueryError, Malformed, docker_inspect(pl, cid)}}

\* the rest of resolve_container_ip: the values it can return; every
\* exception (failed query, timeout, malformed output) is caught: None
resolve_inspect(pl, cid) ==
  IF cid = None THEN {None}
  ELSE {IF info \in {QueryError, Malformed} THEN None ELSE first_ip(info) :
          info \in {QueryError, Malformed, docker_inspect(pl, cid)}}

\* what every run starts with
InitRest ==
  /\ plane \in Planes
  /\ running = Idle
  /\ container_id = None
  /\ mainip = None
  /\ exitcode = -1 /\ failed = {}
  /\ listening = {}
  /\ st = [c \in Conns |-> "FREE"]
  /\ port = [c \in Conns |-> 0]
  /\ ip = [c \in Conns |-> None]
  /\ target = [c \in Conns |-> None]
  /\ pipe = [c \in Conns |-> [s \in Sides |-> "idle"]]
  /\ inq = [c \in Conns |-> [s \in Sides |-> << >>]]
  /\ outq = [c \in Conns |-> [s \in Sides |-> << >>]]
  /\ sent = [c \in Conns |-> [s \in Sides |-> 0]]
  /\ weof = [c \in Conns |-> [s \in Sides |-> FALSE]]
  /\ err = [c \in Conns |-> [s \in Sides |-> FALSE]]
  /\ closed = [c \in Conns |-> [s \in Sides |-> FALSE]]
  /\ path = [c \in Conns |-> "none"]
  /\ nres = [c \in Conns |-> 0]

\* two ports given and found in range: main() is about to run
Init ==
  /\ InitRest
  /\ argv = <<DEFAULT_PORT, 9001>>
  /\ mainpc = "start"

\* any command line: the range test of __main__ is about to run
Argvs == UNION {[1..n -> PortArgs] : n \in 0..MaxArgs}
InitStartup ==
  /\ InitRest
  /\ argv \in Argvs
  /\ mainpc = "validate"

\* ------------------------------------------------------- environment
\* The backend is recreated, stopped or started: the runtime reports a
\* different set of instances.
\* Only a resolution still to come can observe the runtime.
BackendChange(C) ==
  /\ mainpc # "forwarding" \/ \E c \in C : st[c] \in {"FREE", "ACCEPTED", "RESOLVING"}
  /\ plane' \in Planes \ {plane}
  /\ UNCHANGED <<running, container_id, mainvars, listening, handler, streams>>

\* The client is connected from the accept on, the backend from the dial on.
\* The forwarder looks at a stream only while relaying, so end-of-stream
\* and failures are placed there.
Connected(c, s) ==
  IF s = "client" THEN st[c] \in {"ACCEPTED", "RESOLVING", "DIALING", "RELAYING"}
  ELSE st[c] = "RELAYING"

\* Peer s of connection c sends its next byte.  Bytes sent to a transport
\* the forwarder has closed are never read.
PeerSend(c, s) ==
  /\ Connected(c, s) /\ ~weof[c][s] /\ ~err[c][s]
  /\ sent[c][s] < MaxBytes
  /\ sent' = [sent EXCEPT ![c][s] = @ + 1]
  /\ inq' = IF closed[c][s] THEN inq
            ELSE [inq EXCEPT ![c][s] = Append(@, sent[c][s] + 1)]
  /\ UNCHANGED <<plane, running, container_id, mainvars, listening, handler,
                 pipe, outq, weof, err, closed>>

\* Peer s closes its write side (FIN): end-of-stream after the queued bytes.
PeerShutdown(c, s) ==
  /\ st[c] = "RELAYING" /\ ~weof[c][s] /\ ~err[c][s]
  /\ weof' = [weof EXCEPT ![c][s] = TRUE]
  /\ UNCHANGED <<plane, running, container_id, mainvars, listening, handler,
                 pipe, inq, outq, sent, err, closed>>

\* The transport of side s fails (connection reset / broken pipe).
PeerReset(c, s) ==
  /\ st[c] = "RELAYING" /\ ~err[c][s] /\ ~closed[c][s]
  /\ err' = [err EXCEPT ![c][s] = TRUE]
  /\ UNCHANGED <<plane, running, container_id, mainvars, listening, handler,
                 pipe, inq, outq, sent, weof, closed>>

\* ------------------------------------------------------------ __main__
\* variant: only the first port is tested
validate_ok_first_only ==
  /\ mainpc = "validate"
  /\ InRange(portlist[1])
  /\ mainpc' = "start"
  /\ UNCHANGED <<plane, running, container_id, mainip, procvars, listening,
                 handler, streams>>

\* for p in ports: if not (9000 <= p <= 9099): ... -- every port passes
validate_ok ==
  /\ mainpc = "validate"
  /\ \A i \in DOMAIN portlist : InRange(portlist[i])
  /\ mainpc' = "start"
  /\ UNCHANGED <<plane, running, container_id, mainip, procvars, listening,
                 handler, streams>>

\* log.error(...); sys.exit(1) at the first port out of range
validate_abort ==
  /\ mainpc = "validate"
  /\ \E i \in DOMAIN portlist : ~InRange(portlist[i])
  /\ mainpc' = "exited" /\ running' = Exited /\ exitcode' = 1
  /\ UNCHANGED <<plane, container_id, mainip, argv, failed, listening,
                 handler, streams>>

\* ---------------------------------------------------------------- main
\* ip = resolve_container_ip(): entered, first query made
main_start ==
  /\ mainpc = "start" /\ running = Idle
  /\ mainpc' = "resolving" /\ running' = MainTask
  /\ container_id' \in resolve_ps(plane)
  /\ UNCHANGED <<plane, mainip, procvars, listening, handler, streams>>

\* resolve_container_ip returns; main goes on to gather the forwarders
main_resolved ==
  /\ mainpc = "resolving" /\ running = MainTask
  /\ mainip' \in resolve_inspect(plane, container_id)
  /\ mainpc' = "forwarding" /\ running' = Idle /\ container_id' = None
  /\ UNCHANGED <<plane, procvars, listening, handler, streams>>

start_forwarder(p) ==
  /\ mainpc = "forwarding" /\ running = Idle
  /\ p \in ports \ listening
  /\ listening' = listening \cup {p}
  /\ UNCHANGED <<plane, running, container_id, mainvars, handler, streams>>

\* variant: the failure stays with its forwarder (gather collects it)
ListenerDiesAlone(p) ==
  /\ failed' = failed \cup {p}
  /\ listening' = listening \ {p}
  /\ UNCHANGED <<plane, running, container_id, mainpc, mainip, argv, exitcode,
                 handler, streams>>

\* An exception of a forwarder leaves gather and main() and asyncio.run,
\* which is caught for KeyboardInterrupt only: the loop is closed, the
\* process ends with a traceback and every socket it held is closed.
ProcessDies(p) ==
  /\ failed' = failed \cup {p}
  /\ mainpc' = "exited" /\ running' = Exited /\ exitcode' = 1
  /\ listening' = {}
  /\ closed' = [c \in Conns |-> [s \in Sides |-> closed[c][s] \/ Connected(c, s)]]
  /\ UNCHANGED <<plane, container_id, mainip, argv, handler,
                 pipe, inq, outq, sent, weof, err>>

\* asyncio.start_server raises: the port is held by another process, or by
\* the forwarder of the same port given twice
start_forwarder_bind_failed(p) ==
  /\ mainpc = "forwarding" /\ running = Idle
  /\ p \in ports
  /\ p \notin listening \/ Cardinality({i \in DOMAIN portlist : portlist[i] = p}) > 1
  /\ ProcessDies(p)

\* server.serve_forever() raises
serve_forever_raised(p) ==
  /\ mainpc = "forwarding" /\ running = Idle
  /\ p \in listening
  /\ ProcessDies(p)

\* The server of port p accepts a connection and creates the task
\* handle_connection(r, w, p).
accept(p, c) ==
  /\ running = Idle /\ p \in listening
  /\ st[c] = "FREE" /\ \A d \in Conns : d < c => st[d] # "FREE"
  /\ st' = [st EXCEPT ![c] = "ACCEPTED"]
  /\ port' = [port EXCEPT ![c] = p]
  /\ UNCHANGED <<plane, running, container_id, mainvars, listening, ip, target,
                 path, nres, streams>>

\* --------------------------------------------------- handle_connection
\* ip = resolve_container_ip(): a plain call, not awaited.
handle_connection_start(c) ==
  /\ st[c] = "ACCEPTED" /\ running = Idle
  /\ st' = [st EXCEPT ![c] = "RESOLVING"]
  /\ running' = Task(c)
  /\ container_id' \in resolve_ps(plane)
  /\ nres' = [nres EXCEPT ![c] = @ + 1]
  /\ UNCHANGED <<plane, mainvars, listening, port, ip, target, path, streams>>

\* Closing a writer closes the transport: what the StreamReader of the same
\* transport already holds stays readable, then it reports end-of-stream.
CloseWriter(q, c, s, k) == [q EXCEPT ![c][s] = SubSeq(@, 1, k)]

\* variant: the refusal forgets client_writer.close()
handle_connection_refuse_noclose(c) ==
  /\ st[c] = "RESOLVING" /\ running = Task(c)
  /\ None \in resolve_inspect(plane, container_id)
  /\ ip' = [ip EXCEPT ![c] = None]
  /\ st' = [st EXCEPT ![c] = "CLOSED"]
  /\ path' = [path EXCEPT ![c] = "absent"]
  /\ running' = Idle /\ container_id' = None
  /\ UNCHANGED <<plane, mainvars, listening, port, target, nres, streams>>

\* variant: the refusal lacks its return and goes on to dial
handle_connection_refuse_noreturn(c) ==
  /\ st[c] = "RESOLVING" /\ running = Task(c)
  /\ None \in resolve_inspect(plane, container_id)
  /\ ip' = [ip EXCEPT ![c] = None]
  /\ closed' = [closed EXCEPT ![c]["client"] = TRUE]
  /\ \E k \in 0..Len(inq[c]["client"]) : inq' = CloseWriter(inq, c, "client", k)
  /\ target' = [target EXCEPT ![c] = <<None, port[c]>>]
  /\ st' = [st EXCEPT ![c] = "DIALING"]
  /\ running' = Idle /\ container_id' = None
  /\ UNCHANGED <<plane, mainvars, listening, port, path,
                 nres, pipe, outq, sent, weof, err>>

\* if not ip: client_writer.close(); return
handle_connection_refuse(c) ==
  /\ st[c] = "RESOLVING" /\ running = Task(c)
  /\ None \in resolve_inspect(plane, container_id)
  /\ ip' = [ip EXCEPT ![c] = None]
  /\ closed' = [closed EXCEPT ![c]["client"] = TRUE]
  /\ \E k \in 0..Len(inq[c]["client"]) : inq' = CloseWriter(inq, c, "client", k)
  /\ st' = [st EXCEPT ![c] = "CLOSED"]
  /\ path' = [path EXCEPT ![c] = "absent"]
  /\ running' = Idle /\ container_id' = None
  /\ UNCHANGED <<plane, mainvars, listening, port, target,
                 nres, pipe, outq, sent, weof, err>>

\* variant: the address found at startup is kept and dialed when there is one
handle_connection_dial_startup(c) ==
  /\ st[c] = "RESOLVING" /\ running = Task(c)
  /\ \E r \in resolve_inspect(plane, container_id) \ {None} :
       LET a == IF mainip # None THEN mainip ELSE r
       IN /\ ip' = [ip EXCEPT ![c] = a]
          /\ target' = [target EXCEPT ![c] = <<a, port[c]>>]
  /\ st' = [st EXCEPT ![c] = "DIALING"]
  /\ running' = Idle /\ container_id' = None
  /\ UNCHANGED <<plane, mainvars, listening, port, path, nres, streams>>

\* variant: an address resolved for an earlier connection is cached and reused
handle_connection_dial_cached(c) ==
  /\ st[c] = "RESOLVING" /\ running = Task(c)
  /\ \E r \in resolve_inspect(plane, container_id) \ {None} :
       LET a == IF \E d \in Conns : ip[d] # None
                THEN ip[CHOOSE d \in Conns : ip[d] # None] ELSE r
       IN /\ ip' = [ip EXCEPT ![c] = a]
          /\ target' = [target EXCEPT ![c] = <<a, port[c]>>]
  /\ st' = [st EXCEPT ![c] = "DIALING"]
  /\ running' = Idle /\ container_id' = None
  /\ UNCHANGED <<plane, mainvars, listening, port, path, nres, streams>>

\* variant: the dial goes to the default port whatever the listener
handle_connection_dial_default_port(c) ==
  /\ st[c] = "RESOLVING" /\ running = Task(c)
  /\ \E r \in resolve_inspect(plane, container_id) \ {None} :
       /\ ip' = [ip EXCEPT ![c] = r]
       /\ target' = [target EXCEPT ![c] = <<r, DEFAULT_PORT>>]
  /\ st' = [st EXCEPT ![c] = "DIALING"]
  /\ running' = Idle /\ container_id' = None
  /\ UNCHANGED <<plane, mainvars, listening, port, path, nres, streams>>

\* await asyncio.wait_for(asyncio.open_connection(ip, port), timeout=5)
handle_connection_dial(c) ==
  /\ st[c] = "RESOLVING" /\ running = Task(c)
  /\ \E r \in resolve_inspect(plane, container_id) \ {None} :
       /\ ip' = [ip EXCEPT ![c] = r]
       /\ target' = [target EXCEPT ![c] = <<r, port[c]>>]
  /\ st' = [st EXCEPT ![c] = "DIALING"]
  /\ running' = Idle /\ container_id' = None
  /\ UNCHANGED <<plane, mainvars, listening, port, path, nres, streams>>

\* variant: the failed dial is not caught and takes the listener down
handle_connection_dial_failed_fatal(c) ==
  /\ st[c] = "DIALING" /\ running = Idle
  /\ closed' = [closed EXCEPT ![c]["client"] = TRUE]
  /\ \E k \in 0..Len(inq[c]["client"]) : inq' = CloseWriter(inq, c, "client", k)
  /\ st' = [st EXCEPT ![c] = "CLOSED"]
  /\ path' = [path EXCEPT ![c] = "dialfail"]
  /\ listening' = listening \ {port[c]}
  /\ UNCHANGED <<plane, running, container_id, mainvars, port, ip,
                 target, nres, pipe, outq, sent, weof, err>>

\* variant: the relay is started although the dial failed
handle_connection_dial_failed_relays(c) ==
  /\ st[c] = "DIALING" /\ running = Idle
  /\ closed' = [closed EXCEPT ![c]["client"] = TRUE]
  /\ \E k \in 0..Len(inq[c]["client"]) : inq' = CloseWriter(inq, c, "client", k)
  /\ pipe' = [pipe EXCEPT ![c] = [s \in Sides |-> "copy"]]
  /\ st' = [st EXCEPT ![c] = "CLOSED"]
  /\ path' = [path EXCEPT ![c] = "dialfail"]
  /\ UNCHANGED <<plane, running, container_id, mainvars, listening, port, ip,
                 target, nres, outq, sent, weof, err>>

\* variant: the failed dial returns without closing the client stream
handle_connection_dial_failed_noclose(c) ==
  /\ st[c] = "DIALING" /\ running = Idle
  /\ st' = [st EXCEPT ![c] = "CLOSED"]
  /\ path' = [path EXCEPT ![c] = "dialfail"]
  /\ UNCHANGED <<plane, running, container_id, mainvars, listening, port, ip,
                 target, nres, streams>>

\* except Exception: client_writer.close(); return
handle_connection_dial_failed(c) ==
  /\ st[c] = "DIALING" /\ running = Idle
  /\ closed' = [closed EXCEPT ![c]["client"] = TRUE]
  /\ \E k \in 0..Len(inq[c]["client"]) : inq' = CloseWriter(inq, c, "client", k)
  /\ st' = [st EXCEPT ![c] = "CLOSED"]
  /\ path' = [path EXCEPT ![c] = "dialfail"]
  /\ UNCHANGED <<plane, running, container_id, mainvars, listening, port, ip,
                 target, nres, pipe, outq, sent, weof, err>>

\* the dial succeeded: asyncio.gather(pipe(...), pipe(...)) starts both pipes
handle_connection_relay(c) ==
  /\ st[c] = "DIALING" /\ running = Idle
  /\ st' = [st EXCEPT ![c] = "RELAYING"]
  /\ pipe' = [pipe EXCEPT ![c] = [s \in Sides |-> "copy"]]
  /\ UNCHANGED <<plane, running, container_id, mainvars, listening, port, ip,
                 target, path, nres, inq, outq, sent, weof, err, closed>>

\* variant: the handler waits for the first pipe only
handle_connection_closed_first(c) ==
  /\ st[c] = "RELAYING" /\ running = Idle
  /\ \E s \in Sides : pipe[c][s] = "done"
  /\ st' = [st EXCEPT ![c] = "CLOSED"]
  /\ path' = [path EXCEPT ![c] = "relay"]
  /\ UNCHANGED <<plane, running, container_id, mainvars, listening, port, ip,
                 target, nres, streams>>

\* gather returns when both pipes have returned; log "closed"
handle_connection_closed(c) ==
  /\ st[c] = "RELAYING" /\ running = Idle
  /\ \A s \in Sides : pipe[c][s] = "done"
  /\ st' = [st EXCEPT ![c] = "CLOSED"]
  /\ path' = [path EXCEPT ![c] = "relay"]
  /\ UNCHANGED <<plane, running, container_id, mainvars, listening, port, ip,
                 target, nres, streams>>

\* ---------------------------------------------------------------- pipe
\* variant: a chunk is written twice
pipe_copy_twice(c, s) ==
  /\ st[c] = "RELAYING" /\ running = Idle /\ pipe[c][s] = "copy"
  /\ ~err[c][s] /\ ~err[c][Other(s)]
  /\ inq[c][s] # << >>
  /\ \E n \in 1..Min(Len(inq[c][s]), BUF_SIZE) :
       /\ outq' = [outq EXCEPT ![c][Other(s)] =
                     @ \o SubSeq(inq[c][s], 1, n) \o SubSeq(inq[c][s], 1, n)]
       /\ inq' = [inq EXCEPT ![c][s] = SubSeq(@, n + 1, Len(@))]
  /\ UNCHANGED <<plane, running, container_id, mainvars, listening, handler,
                 pipe, sent, weof, err, closed>>

\* pipe(reader of side s, writer of side Other(s))
\* data = await reader.read(BUF_SIZE); writer.write(data); await writer.drain()
pipe_copy(c, s) ==
  /\ st[c] = "RELAYING" /\ running = Idle /\ pipe[c][s] = "copy"
  /\ ~err[c][s] /\ ~err[c][Other(s)]
  /\ inq[c][s] # << >>
  /\ \E n \in 1..Min(Len(inq[c][s]), BUF_SIZE) :
       /\ outq' = [outq EXCEPT ![c][Other(s)] = @ \o SubSeq(inq[c][s], 1, n)]
       /\ inq' = [inq EXCEPT ![c][s] = SubSeq(@, n + 1, Len(@))]
  /\ UNCHANGED <<plane, running, container_id, mainvars, listening, handler,
                 pipe, sent, weof, err, closed>>

\* variant: the finally block does not close the writer
pipe_finally_noclose(c, s) ==
  /\ pipe' = [pipe EXCEPT ![c][s] = "done"]
  /\ UNCHANGED <<closed, inq>>

\* finally: writer.close(); await writer.wait_closed(), an exception of
\* either swallowed by the inner except Exception
pipe_finally(c, s) ==
  /\ pipe' = [pipe EXCEPT ![c][s] = "done"]
  /\ closed' = [closed EXCEPT ![c][Other(s)] = TRUE]
  /\ \E k \in 0..Len(inq[c][Other(s)]) :
       inq' = CloseWriter(inq, c, Other(s), k)

\* if not data: break
pipe_eof(c, s) ==
  /\ st[c] = "RELAYING" /\ running = Idle /\ pipe[c][s] = "copy"
  /\ ~err[c][s]
  /\ inq[c][s] = << >>
  /\ weof[c][s] \/ closed[c][s]
  /\ pipe_finally(c, s)
  /\ UNCHANGED <<plane, running, container_id, mainvars, listening, handler,
                 outq, sent, weof, err>>

\* variant: the error path returns without closing the writer
pipe_error_noclose(c, s) ==
  /\ st[c] = "RELAYING" /\ running = Idle /\ pipe[c][s] = "copy"
  /\ \/ err[c][s]
     \/ err[c][Other(s)] /\ inq[c][s] # << >>
  /\ pipe' = [pipe EXCEPT ![c][s] = "done"]
  /\ UNCHANGED <<plane, running, container_id, mainvars, listening, handler,
                 inq, outq, sent, weof, err, closed>>

\* variant: the transport error is not caught and leaves pipe() as an exception
pipe_error_raises(c, s) ==
  /\ st[c] = "RELAYING" /\ running = Idle /\ pipe[c][s] = "copy"
  /\ \/ err[c][s]
     \/ err[c][Other(s)] /\ inq[c][s] # << >>
  /\ pipe' = [pipe EXCEPT ![c][s] = "raised"]
  /\ UNCHANGED <<plane, running, container_id, mainvars, listening, handler,
                 inq, outq, sent, weof, err, closed>>

\* except (ConnectionResetError, BrokenPipeError, OSError): pass
\* raised by the read on a failed source, or by write/drain on a failed
\* destination (the chunk read is then lost)
pipe_error(c, s) ==
  /\ st[c] = "RELAYING" /\ running = Idle /\ pipe[c][s] = "copy"
  /\ \/ err[c][s]
     \/ err[c][Other(s)] /\ inq[c][s] # << >>
  /\ pipe_finally(c, s)
  /\ UNCHANGED <<plane, running, container_id, mainvars, listening, handler,
                 outq, sent, weof, err>>

\* ---------------------------------------------------------------- Next
\* what the peers have done so far
Bytes(f) == SumSent(f, Conns)
Shutdowns(f) == Cardinality(Flagged(f))
Resets(f) == Cardinality(Flagged(f))

Program(C) ==
  \/ main_start
  \/ main_resolved
  \/ \E p \in ports : start_forwarder(p)
  \/ \E p \in ports, c \in C : accept(p, c)
  \/ \E c \in C : handle_connection_start(c)
  \/ \E c \in C : handle_connection_refuse(c)
  \/ \E c \in C : handle_connection_dial(c)
  \/ \E c \in C : handle_connection_dial_failed(c)
  \/ \E c \in C : handle_connection_relay(c)
  \/ \E c \in C : handle_connection_closed(c)
  \/ \E c \in C, s \in Sides : pipe_copy(c, s)
  \/ \E c \in C, s \in Sides : pipe_eof(c, s)
  \/ \E c \in C, s \in Sides : pipe_error(c, s)

Environment(C) ==
  \/ BackendChange(C)
  \/ \E c \in C, s \in Sides : PeerSend(c, s)
  \/ \E c \in C, s \in Sides : PeerShutdown(c, s)
  \/ \E c \in C, s \in Sides : PeerReset(c, s)

\* every connection, little traffic
Next ==
  \/ Program(Conns)
  \/ /\ Environment(Conns)
     /\ Bytes(sent') + Shutdowns(weof') + Resets(err') <= MaxConcEvents

Spec == Init /\ [][Next]_vars

\* one connection, more traffic
NextRelay ==
  \/ Program({1})
  \/ /\ Environment({1})
     /\ Bytes(sent') <= MaxTotal
     /\ Resets(err') <= MaxResets

SpecRelay == Init /\ [][NextRelay]_vars

\* the event loop runs every callback that is ready: the program's own steps
\* are taken when they stay possible; the peers are under no obligation
SpecRelayFair == SpecRelay /\ WF_vars(Program({1}))

\* the whole process from its command line on, listener failures included;
\* one connection, little traffic
Startup ==
  \/ validate_ok
  \/ validate_abort
  \/ \E p \in PortArgs : start_forwarder_bind_failed(p)
  \/ \E p \in PortArgs : serve_forever_raised(p)

NextStartup ==
  \/ Startup
  \/ Program({1})
  \/ /\ Environment({1})
     /\ Bytes(sent') + Shutdowns(weof') + Resets(err') <= MaxConcEvents

SpecStartup == InitStartup /\ [][NextStartup]_vars

TypeOK ==
  /\ plane \in Planes
  /\ running \in {Idle, MainTask, Exited} \cup {Task(c) : c \in Conns}
  /\ mainpc \in {"validate", "start", "resolving", "forwarding", "exited"}
  /\ listening \subseteq ports
  /\ \A c \in Conns :
       /\ st[c] \in {"FREE", "ACCEPTED", "RESOLVING", "DIALING", "RELAYING", "CLOSED"}
       /\ \A s \in Sides : pipe[c][s] \in {"idle", "copy", "done"}
       /\ \A s \in Sides : sent[c][s] \in 0..MaxBytes

\* ------------------------------------------------------------ properties
NoErr(c) == ~err[c]["client"] /\ ~err[c]["upstream"]
Seq1(n) == [i \in 1..n |-> i]
\* what a connection's handler and relay hold
View(c) == <<st[c], port[c], ip[c], target[c], path[c], pipe[c], closed[c],
             inq[c], outq[c]>>

\* C1: every handler makes its own resolver call after the accept and dials
\* exactly the address that call returns for the runtime as the handler
\* queried it; neither another connection's address nor the one main() found
\* at startup is dialed.
C1_OwnResolution ==
  [][\A c \in Conns :
       /\ target'[c] # target[c] =>
            /\ running = Task(c) /\ nres[c] = 1
            /\ target'[c][1] \in resolve_inspect(plane, container_id) \ {None}
            /\ ip'[c] = target'[c][1]
       /\ target'[c] # None => nres'[c] = 1 /\ ip'[c] = target'[c][1]]_vars

\* two connections have dialed different addresses, and the second one's is
\* not the address main() found
C1_Witness ==
  /\ target[1] # None /\ target[2] # None
  /\ target[1][1] # target[2][1]
  /\ mainip # None /\ mainip # target[2][1]

\* C2: when the resolver returns absent the handler closes the client
\* stream and is finished: no dial, no relay, no second resolution.
C2_AbsentRefused ==
  \A c \in Conns :
    path[c] = "absent" =>
      /\ st[c] = "CLOSED" /\ closed[c]["client"]
      /\ ip[c] = None /\ target[c] = None /\ nres[c] = 1
      /\ \A s \in Sides : pipe[c][s] = "idle" /\ outq[c][s] = << >>
      /\ ~closed[c]["upstream"]

\* a refused connection whose client had already sent bytes
C2_Witness == \E c \in Conns : path[c] = "absent" /\ sent[c]["client"] > 0

\* C3: when the dial fails the handler closes the client stream and is
\* finished; neither pipe was started and no byte was written either way.
C3_DialFailureNoRelay ==
  \A c \in Conns :
    path[c] = "dialfail" =>
      /\ st[c] = "CLOSED" /\ closed[c]["client"]
      /\ target[c] # None
      /\ \A s \in Sides : pipe[c][s] = "idle" /\ outq[c][s] = << >>
      /\ ~closed[c]["upstream"]

\* a failed dial with client bytes waiting
C3_Witness == \E c \in Conns : path[c] = "dialfail" /\ sent[c]["client"] = MaxBytes

\* C4: half-close: without an error, as long as the backend has not closed
\* its write side the backend-to-client pipe keeps copying and its source
\* stays open, whatever the client has closed.
C4_HalfClose ==
  \A c \in Conns :
    (st[c] = "RELAYING" /\ NoErr(c) /\ weof[c]["client"] /\ ~weof[c]["upstream"]) =>
      /\ pipe[c]["upstream"] = "copy"
      /\ ~closed[c]["upstream"]

\* C5: round trip: a relay that completed without a transport error has
\* delivered to each peer exactly the bytes the other peer sent, in order.
C5_RoundTrip ==
  \A c \in Conns :
    (path[c] = "relay" /\ NoErr(c)) =>
      /\ outq[c]["upstream"] = Seq1(sent[c]["client"])
      /\ outq[c]["client"] = Seq1(sent[c]["upstream"])

\* a pipe that has bytes to copy
CanCopy(d, s) ==
  /\ st[d] = "RELAYING" /\ pipe[d][s] = "copy"
  /\ NoErr(d) /\ inq[d][s] # << >>

\* C6: while one handler is in RESOLVING nothing else is held up: a pipe of
\* another connection with bytes to copy can copy them, and a listener can
\* accept the next connection.
C6_ResolvingBlocksNobody ==
  \A c \in Conns :
    st[c] = "RESOLVING" =>
      \A d \in Conns \ {c} :
        /\ \A s \in Sides : CanCopy(d, s) => ENABLED pipe_copy(d, s)
        /\ (st[d] = "FREE" /\ listening # {}) => ENABLED (\E p \in ports : accept(p, d))

\* C7: a dial made for a connection accepted on port N goes to port N.
C7_SamePort ==
  \A c \in Conns :
    target[c] # None => target[c][2] = port[c] /\ port[c] \in listening

\* both ports have been dialed, each for a connection of its own listener
C7_Witness ==
  /\ target[1] # None /\ target[2] # None
  /\ target[1][2] # target[2][2]

\* C8: a step in which a handler fails (refusal, failed dial, a pipe ended by
\* a transport error) changes nothing of any other connection and leaves
\* every listener serving.
Fails(c) ==
  \/ path[c] = "none" /\ path'[c] \in {"absent", "dialfail"}
  \/ \E s \in Sides : pipe[c][s] = "copy" /\ pipe'[c][s] = "done" /\ ~NoErr(c)
C8_FailuresLocal ==
  [][\A c \in Conns :
       Fails(c) => /\ listening' = listening
                   /\ \A d \in Conns \ {c} : View(d)' = View(d)]_vars

\* one connection has failed to dial while the other is relaying untouched
C8_Witness ==
  \E c \in Conns, d \in Conns :
    /\ c # d /\ path[c] = "dialfail"
    /\ st[d] = "RELAYING" /\ \A s \in Sides : pipe[d][s] = "copy" /\ ~closed[d][s]
    /\ listening = ports

\* C9: the "closed" event of the relay path comes only after both pipes have
\* returned, each having closed its writer.
C9_ClosedAfterBoth ==
  \A c \in Conns :
    path[c] = "relay" =>
      /\ st[c] = "CLOSED"
      /\ \A s \in Sides : pipe[c][s] = "done" /\ closed[c][s]

\* a relay that carried bytes both ways has completed
C9_Witness ==
  \E c \in Conns :
    path[c] = "relay" /\ \A s \in Sides : outq[c][s] # << >>

\* C10: a change of the backend address leaves a connection that has dialed
\* as it is: its dial target never changes, its pipes end only on
\* end-of-stream or a transport error of its own streams, and a stream is
\* closed only by a pipe that has ended; a dial made after the change goes
\* to an address the runtime reports then.
C10_ChangeLeavesInflight ==
  [][\A c \in Conns :
       /\ target[c] # None => target'[c] = target[c]
       /\ target'[c] # target[c] => target'[c][1] \in AddrsOf(plane)
       /\ (plane' # plane /\ st[c] \in {"DIALING", "RELAYING"}) => View(c)' = View(c)
       /\ st'[c] = "RELAYING" =>
            \A s \in Sides :
              /\ pipe'[c][s] = "done" =>
                   weof'[c][s] \/ closed'[c][s] \/ ~NoErr(c)'
              /\ closed'[c][s] => pipe'[c][Other(s)] = "done"]_vars

\* the first connection relays to an address the runtime no longer reports,
\* the second has dialed the new one
C10_Witness ==
  /\ st[1] = "RELAYING" /\ target[1][1] \notin AddrsOf(plane)
  /\ \A s \in Sides : pipe[1][s] = "copy" /\ ~closed[1][s]
  /\ target[2] # None /\ target[2][1] \in AddrsOf(plane)

\* C11: a port argument outside [9000, 9099], wherever it stands in the
\* list, ends the process with a non-zero status before anything is bound:
\* no listener ever serves, main() is never entered, nothing is accepted.
C11_InvalidPortNoBind ==
  (\E i \in DOMAIN argv : ~InRange(argv[i])) =>
    /\ listening = {} /\ failed = {}
    /\ mainpc \in {"validate", "exited"}
    /\ mainpc = "exited" => exitcode \notin {-1, 0}
    /\ \A c \in Conns : st[c] = "FREE"

\* a valid port followed by an invalid one: the process has exited
C11_Witness ==
  /\ Len(argv) = 2 /\ InRange(argv[1]) /\ ~InRange(argv[2])
  /\ mainpc = "exited" /\ exitcode = 1

\* C19: once the listener of one port has failed to bind or to serve, the
\* whole process has ended with a non-zero status and no port is served.
C19_ListenerFailureFatal ==
  failed # {} =>
    /\ running = Exited /\ mainpc = "exited"
    /\ exitcode \notin {-1, 0}
    /\ listening = {}

\* one port failed after the listener of another port had accepted a
\* connection
C19_Witness ==
  /\ failed # {}
  /\ \E c \in Conns : st[c] # "FREE" /\ port[c] \notin failed

\* the handler's next states
Allowed ==
  { <<"FREE", "ACCEPTED">>, <<"ACCEPTED", "RESOLVING">>,
    <<"RESOLVING", "DIALING">>, <<"RESOLVING", "CLOSED">>,
    <<"DIALING", "RELAYING">>, <<"DIALING", "CLOSED">>,
    <<"RELAYING", "CLOSED">> }

\* C12: a handler moves only ACCEPTED -> RESOLVING -> DIALING -> RELAYING ->
\* CLOSED, with RESOLVING -> CLOSED and DIALING -> CLOSED as the only
\* shortcuts; the dial is started only with an address the resolver returned,
\* the pipes run only once the dial has succeeded, and CLOSED is final.
C12_Transitions ==
  [][\A c \in Conns :
       /\ st'[c] # st[c] => <<st[c], st'[c]>> \in Allowed
       /\ st'[c] = "DIALING" =>
            /\ nres'[c] >= 1 /\ ip'[c] # None
            /\ target'[c] # None /\ target'[c][1] = ip'[c]
       /\ (\E s \in Sides : pipe'[c][s] # "idle") =>
            st'[c] \in {"RELAYING", "CLOSED"} /\ path'[c] \in {"none", "relay"}
       /\ st'[c] = "RELAYING" => st[c] \in {"DIALING", "RELAYING"}
       /\ st[c] = "CLOSED" =>
            st'[c] = "CLOSED" /\ path'[c] = path[c] /\ pipe'[c] = pipe[c]]_vars

\* one handler went through the relay to CLOSED, the other was closed from
\* DIALING
C12_Witness ==
  /\ st[1] = "CLOSED" /\ path[1] = "relay"
  /\ st[2] = "CLOSED" /\ path[2] = "dialfail"

C14_ClosedStreams ==
  \A c \in Conns :
    st[c] = "CLOSED" =>
      /\ closed[c]["client"]
      /\ path[c] # "none"
      /\ (path[c] = "relay" \/ \E s \in Sides : pipe[c][s] # "idle") =>
           closed[c]["upstream"]

\* one handler refused for want of an address, the other closed after a relay
C14_Witness ==
  /\ st[1] = "CLOSED" /\ path[1] = "absent"
  /\ st[2] = "CLOSED" /\ path[2] = "relay"

IsPrefix(a, b) == Len(a) <= Len(b) /\ SubSeq(b, 1, Len(a)) = a

\* C15: in each direction the bytes written to the destination, followed by
\* those received and not yet copied, are a prefix of the bytes the source
\* peer sent: nothing is reordered, duplicated or skipped.
C15_WrittenIsPrefix ==
  \A c \in Conns : \A s \in Sides :
    /\ IsPrefix(outq[c][Other(s)] \o inq[c][s], Seq1(sent[c][s]))
    /\ IsPrefix(outq[c][Other(s)], Seq1(sent[c][s]))

\* two bytes have been copied one way and one the other way
C15_Witness ==
  \E c \in Conns :
    outq[c]["upstream"] = <<1, 2>> /\ outq[c]["client"] = <<1>>

\* C16: a direction leaves its copy loop only into its end, with its
\* destination writer closed, on end-of-stream and on a transport error
\* alike; no failure of the close keeps the direction from ending.
C16_ExitClosesDestination ==
  [][\A c \in Conns : \A s \in Sides :
       /\ pipe'[c][s] \in {"idle", "copy", "done"}
       /\ (pipe[c][s] = "copy" /\ pipe'[c][s] # "copy") =>
            pipe'[c][s] = "done" /\ closed'[c][Other(s)]
       /\ pipe[c][s] = "done" => pipe'[c][s] = "done" /\ closed'[c][Other(s)]]_vars

\* a direction has ended on a failed destination, whose close fails as well,
\* while its source was still open
C16_Witness ==
  \E c \in Conns :
    /\ pipe[c]["client"] = "done" /\ closed[c]["upstream"]
    /\ err[c]["upstream"] /\ ~err[c]["client"]
    /\ ~weof[c]["client"] /\ ~closed[c]["client"]

\* C17: after a transport error in a relay both directions still end and the
\* handler completes as a relay that closed.
C17_ErrorEndsLikeEOF ==
  \A c \in Conns :
    (st[c] = "RELAYING" /\ ~NoErr(c)) ~>
      /\ st[c] = "CLOSED" /\ path[c] = "relay"
      /\ \A s \in Sides : pipe[c][s] = "done"

\* a relay has completed after its upstream transport failed with bytes of
\* the client still to be written
C17_Witness ==
  \E c \in Conns :
    /\ path[c] = "relay" /\ err[c]["upstream"]
    /\ inq[c]["client"] # << >>

\* ids and addresses the runtime can report
Ids == UNION {{pl[i].id : i \in DOMAIN pl} : pl \in Planes}
Addrs == UNION {AddrsOf(pl) : pl \in Planes}

\* C18: the resolver returns an address or None for every outcome of its
\* queries (no instance, failed or timed-out query, malformed descriptor,
\* descriptor without address) and nothing else; a handler whose call
\* returned None took the refusal, and only such a handler did.
C18_ResolverNeverRaises ==
  /\ resolve_ps(plane) \subseteq Ids \cup {None}
  /\ None \in resolve_ps(plane)
  /\ plane = << >> => resolve_ps(plane) = {None}
  /\ \A cid \in Ids \cup {None} :
       /\ resolve_inspect(plane, cid) \subseteq Addrs \cup {None}
       /\ None \in resolve_inspect(plane, cid)
  /\ mainip \in Addrs \cup {None}
  /\ \A c \in Conns :
       /\ ip[c] \in Addrs \cup {None}
       /\ st[c] \in {"DIALING", "RELAYING", "CLOSED"} =>
            (ip[c] = None <=> path[c] = "absent")

\* a handler was refused while the first instance listed has an address,
\* and the other handler has dialed it
C18_Witness ==
  /\ path[1] = "absent"
  /\ plane # << >>
  /\ st[2] = "DIALING" /\ ip[2] \in AddrsOf(<<plane[1]>>)

\* the first non-empty entry of a list of addresses, None if there is none
FirstAddr(nets) ==
  IF \A j \in DOMAIN nets : nets[j] = "" THEN None
  ELSE nets[CHOOSE j \in DOMAIN nets :
              nets[j] # "" /\ \A k \in 1..(j - 1) : nets[k] = ""]

\* C20: the resolver inspects the first instance the runtime lists and no
\* other, and a dial goes to the first non-empty address of that instance;
\* when that instance has no address nothing is dialed, even if another
\* instance has one.
C20_FirstInstanceOnly ==
  [][/\ (container_id' # container_id /\ container_id' # None) =>
          plane # << >> /\ container_id' = plane[1].id
     /\ \A c \in Conns :
          target'[c] # target[c] =>
            \E i \in DOMAIN plane :
              /\ plane[i].id = container_id
              /\ FirstAddr(plane[i].nets) # None
              /\ target'[c][1] = FirstAddr(plane[i].nets)]_vars

\* refused on its only resolution, with a second instance that has an
\* address while the first has none
C20_Witness ==
  \E c \in Conns :
    /\ path[c] = "absent" /\ nres[c] = 1
    /\ Len(plane) = 2
    /\ FirstAddr(plane[1].nets) = None /\ FirstAddr(plane[2].nets) # None
====
